---- MODULE Spec2Model ----
(***************************************************************************)
(* Model of "Semester Project/script.js": a D3 bar chart of the average    *)
(* monthly rainfall per district, re-rendered from a CSV file whenever the *)
(* year selector changes, with SVG and JPG export.                         *)
(*                                                                         *)
(* Numbers.  Rainfall cells are multiples of 12, so that the division by   *)
(* months.length is exact in the integers.  Pixel coordinates are kept in  *)
(* thousandths of a pixel (floor-rounded), so 360 px is 360000.            *)
(*                                                                         *)
(* DOM.  The children of the translated <g> (the JS constant svg) are kept *)
(* as one sequence in document order; the <rect class="bar"> of a bar      *)
(* group follows its <g>.  Every element carries the ghost field src: the  *)
(* number of the renderFromCSV call whose response drew it.                *)
(***************************************************************************)
EXTENDS Integers, Sequences, FiniteSets, TLC

\* ------------------------------------------------------------------ bounds
MaxRequests == 3
MaxExports == 2
MaxRows == 3

\* ------------------------------------------------------------ the program's
\* constants
margin == [top |-> 60, right |-> 30, bottom |-> 80, left |-> 80]
width == (900 - margin.left - margin.right) * 1000
height == (500 - margin.top - margin.bottom) * 1000
months == 1..12

\* Files the page can ask for: the default one and one more year of the selector.
Files == {"data.csv", "data2024.csv"}

\* ----------------------------------------------------------- CSV contents
\* A cell is the text d3.csv hands over for a month column; "undefined" stands
\* for a column the file does not have.
NumTable == ("-12" :> (0 - 12)) @@ ("0" :> 0) @@ ("12" :> 12) @@ ("24" :> 24)
Cells == {"undefined", "", "abc"} \cup DOMAIN NumTable
Districts == <<"Corozal", "Orange Walk", "Belize", "Cayo">>

Row(district, base, m, c) ==
    [District |-> district, cell |-> [k \in months |-> IF k = m THEN c ELSE base]]

\* ------------------------------------------------------------- aggregation
\* Unary plus on a cell: ToNumber.  The result is NaN or a number.
ToNumber(c) ==
    IF c \in DOMAIN NumTable THEN [nan |-> FALSE, v |-> NumTable[c]]
    ELSE IF c = "" THEN [nan |-> FALSE, v |-> 0]
    ELSE [nan |-> TRUE, v |-> 0]

\* d[m] = +d[m] || 0 : NaN and 0 are falsy.
Coerce(c) ==
    LET n == ToNumber(c) IN IF n.nan \/ n.v = 0 THEN 0 ELSE n.v

RECURSIVE ReduceFrom(_, _)
ReduceFrom(cell, k) ==
    IF k > 12 THEN 0 ELSE Coerce(cell[k]) + ReduceFrom(cell, k + 1)

\* months.reduce((sum, month) => sum + district[month], 0), Jan first
totalRainfallSkipJan(cell) == ReduceFrom(cell, 2)
totalRainfall(cell) == ReduceFrom(cell, 1)

\* one element of data.map(...)
Average(row) ==
    [district |-> row.District, average |-> totalRainfall(row.cell) \div Cardinality(months)]

\* the comparator of .sort(): positive when a must come after b
compareAscending(a, b) == a.average - b.average
compare(a, b) == b.average - a.average

\* Array.prototype.sort is stable: an element goes behind every element that
\* does not have to come after it.
RECURSIVE InsertSorted(_, _)
InsertSorted(sorted, e) ==
    IF sorted = << >> THEN <<e>>
    ELSE IF compare(Head(sorted), e) > 0 THEN <<e>> \o sorted
    ELSE <<Head(sorted)>> \o InsertSorted(Tail(sorted), e)

RECURSIVE SortFrom(_, _, _)
SortFrom(mapped, k, acc) ==
    IF k > Len(mapped) THEN acc
    ELSE SortFrom(mapped, k + 1, InsertSorted(acc, mapped[k]))

\* const yearlyAverages = data.map(...).sort(...)
yearlyAverages(data) ==
    SortFrom([i \in 1..Len(data) |-> Average(data[i])], 1, << >>)

\* ------------------------------------------------------------------ scales
\* Division rounding down, for either sign of the divisor (b # 0).
Div(a, b) == IF b > 0 THEN a \div b ELSE (0 - a) \div (0 - b)

\* The domain of a band scale keeps the first occurrence of each name.
RECURSIVE Dedup(_, _)
Dedup(names, seen) ==
    IF names = << >> THEN << >>
    ELSE IF Head(names) \in seen THEN Dedup(Tail(names), seen)
    ELSE <<Head(names)>> \o Dedup(Tail(names), seen \cup {Head(names)})

xDomain(ya) == Dedup([i \in 1..Len(ya) |-> ya[i].district], {})

\* d3.scaleBand().domain(...).range([0, width]).padding(0.3):
\* step = width / max(1, n - 0.3 + 2 * 0.3)
xStep(n) == IF n = 0 THEN width ELSE (width * 10) \div (10 * n + 3)
xStart(n) == (width * 10 - xStep(n) * (10 * n - 3)) \div 20
bandwidth(n) == (xStep(n) * 7) \div 10
IndexOf(dom, name) == CHOOSE i \in 1..Len(dom) : dom[i] = name
xScale(dom, name) == xStart(Len(dom)) + xStep(Len(dom)) * (IndexOf(dom, name) - 1)

\* d3.max(yearlyAverages, d => d.average) * 1.15, in hundredths; d3.max of
\* nothing is undefined, and undefined * 1.15 is NaN.
Max(S) == CHOOSE m \in S : \A o \in S : o <= m
yDomain(ya) ==
    IF ya = << >> THEN [nan |-> TRUE, hi |-> 0]
    ELSE [nan |-> FALSE, hi |-> Max({ya[i].average : i \in 1..Len(ya)}) * 115]

\* d3.scaleLinear().domain([0, hi]).range([height, 0]) applied to v.  The
\* scale does not clamp.  A domain of zero width normalises every value to
\* 0.5; a domain running downwards (hi < 0) is normalised from its lower end.
yScale(dom, v) ==
    IF dom.hi = 0 THEN height \div 2
    ELSE IF dom.hi < 0 THEN Div(height * (v * 100 - dom.hi), 0 - dom.hi)
    ELSE height - Div(height * v * 100, dom.hi)

\* ------------------------------------------------------------------- state
VARIABLES
    chartPresent,   \* the page has an element with id="chart"
    selectPresent,  \* the page has an element with id="yearSelect"
    csv,            \* what each file holds: a sequence of rows
    selected,       \* value of the selected option of #yearSelect
    ready,          \* DOMContentLoaded has run: the listeners are attached
    requests,       \* the renderFromCSV calls so far: requests[id] is the file
    pending,        \* ids of the d3.csv promises not settled yet
    surface,        \* children of svg, in document order
    blobs,          \* blob URLs made by URL.createObjectURL, in order
    downloads,      \* downloads triggered by downloadLink.click()
    alerts,         \* alert() messages shown
    uncaught,       \* errors that left a handler uncaught
    nexp,           \* clicks on the two download buttons
    tooltip,        \* the <div class="tooltip">: opacity, html, left, top
    pointer         \* the pointer event dispatched last: type, pageX, pageY

vars == <<chartPresent, selectPresent, csv, selected, ready, requests, pending,
          surface, blobs, downloads, alerts, uncaught, nexp, tooltip, pointer>>

\* --------------------------------------------------------------- rendering
\* svg.selectAll(selector).remove()
SuccessSelector == {"grid", "x axis", "y axis", "bar", "label", "data-file-label", "error-msg"}
CatchSelector == {"grid", "x axis", "y axis", "bar", "label"}
Keep(e, selector) == e.cls \notin selector
Remove(els, selector) == SelectSeq(els, LAMBDA e : Keep(e, selector))

\* <g><rect class="bar" .../></g> for entry i
BarGroup(ya, i, id) ==
    LET d == ya[i]
        y == yScale(yDomain(ya), d.average)
    IN  << [tag |-> "g", cls |-> "", src |-> id],
           [tag |-> "rect", cls |-> "bar", src |-> id, d |-> d,
            x |-> xScale(xDomain(ya), d.district), y |-> y,
            width |-> bandwidth(Len(xDomain(ya))), height |-> height - y,
            opacity |-> "0.9", stroke |-> "",
            y0 |-> yScale(yDomain(ya), 0)] >>

RECURSIVE BarGroups(_, _, _)
BarGroups(ya, i, id) ==
    IF i > Len(ya) THEN << >> ELSE BarGroup(ya, i, id) \o BarGroups(ya, i + 1, id)

ValueLabel(ya, i, id) ==
    [tag |-> "text", cls |-> "label", src |-> id, d |-> ya[i],
     x |-> xScale(xDomain(ya), ya[i].district) + bandwidth(Len(xDomain(ya))) \div 2,
     y |-> yScale(yDomain(ya), ya[i].average) - 10 * 1000]

\* What the then-handler appends, in order.
Drawn(ya, id) ==
    << [tag |-> "g", cls |-> "grid", src |-> id, domain |-> yDomain(ya)] >>
    \o BarGroups(ya, 1, id)
    \o << [tag |-> "g", cls |-> "x axis", src |-> id, domain |-> xDomain(ya)],
          [tag |-> "g", cls |-> "y axis", src |-> id, domain |-> yDomain(ya)],
          [tag |-> "text", cls |-> "axis-label", src |-> id,
           text |-> "Average Monthly Rainfall (mm)"],
          [tag |-> "text", cls |-> "axis-label", src |-> id,
           text |-> "Districts of Belize"],
          [tag |-> "text", cls |-> "", src |-> id,
           text |-> "Average Monthly Rainfall by District in Belize"] >>
    \o [i \in 1..Len(ya) |-> ValueLabel(ya, i, id)]

ErrorMsg(csvFile, id) ==
    [tag |-> "text", cls |-> "error-msg", src |-> id, x |-> width \div 2,
     y |-> height \div 2, text |-> <<"Failed to load ", csvFile>>]

\* renderFromCSV(csvFile): starts the fetch; the drawing is in the handlers.
renderFromCSV(csvFile) ==
    /\ requests' = Append(requests, csvFile)
    /\ pending' = pending \cup {Len(requests) + 1}

\* d3.csv(csvFile).then(data => ...).  With no #chart, svg is an empty
\* selection and every call on it does nothing.
thenHandler(id) ==
    /\ id \in pending
    /\ pending' = pending \ {id}
    /\ surface' = IF chartPresent
                  THEN Remove(surface, SuccessSelector)
                       \o Drawn(yearlyAverages(csv[requests[id]]), id)
                  ELSE surface
    /\ UNCHANGED <<tooltip, pointer, chartPresent, selectPresent, csv, selected, ready, requests,
                   blobs, downloads, alerts, uncaught, nexp>>

\* .catch(error => ...)
catchHandler(id) ==
    /\ id \in pending
    /\ pending' = pending \ {id}
    /\ surface' = IF chartPresent
                  THEN Append(Remove(surface, CatchSelector), ErrorMsg(requests[id], id))
                  ELSE surface
    /\ UNCHANGED <<tooltip, pointer, chartPresent, selectPresent, csv, selected, ready, requests,
                   blobs, downloads, alerts, uncaught, nexp>>

\* document.addEventListener('DOMContentLoaded', ...)
DOMContentLoaded ==
    /\ ~ready
    /\ ready' = TRUE
    /\ renderFromCSV("data.csv")
    /\ UNCHANGED <<tooltip, pointer, chartPresent, selectPresent, csv, selected, surface, blobs,
                   downloads, alerts, uncaught, nexp>>

\* yearSelect 'change' listener; the browser fires it when the value changes.
yearSelectChange(f) ==
    /\ ready /\ selectPresent
    /\ f # selected
    /\ Len(requests) < MaxRequests
    /\ selected' = f
    /\ renderFromCSV(f)
    /\ UNCHANGED <<tooltip, pointer, chartPresent, selectPresent, csv, ready, surface, blobs,
                   downloads, alerts, uncaught, nexp>>

\* ------------------------------------------------------------------- hover
\* Pointer events on a bar.  k is the place of the <rect class="bar"> in the
\* surface, event the position of the pointer in page pixels.  A transition
\* is taken at its end: the attribute has the value the transition runs to.
Pointers == {[pageX |-> px, pageY |-> py] : px \in {100, 300}, py \in {200, 240}}

\* d.average.toFixed(1) of a whole number: its digits and one decimal 0
toFixed1(n) == <<n, ".", 0>>

\* (event.pageX + 10) + "px" and (event.pageY - 28) + "px"
tooltipPositionSwapped(event) ==
    [left |-> <<event.pageX + 10, "px">>, top |-> <<event.pageX - 28, "px">>]
tooltipPosition(event) ==
    [left |-> <<event.pageX + 10, "px">>, top |-> <<event.pageY - 28, "px">>]

IsBar(k) == k \in 1..Len(surface) /\ surface[k].cls = "bar"

\* .on("mouseover", function(event, d) {...}); raise() moves the rect behind
\* its siblings, and it is the only child of its <g>.
mouseover(k, event) ==
    /\ IsBar(k)
    /\ surface' = [surface EXCEPT ![k].opacity = "1", ![k].stroke = "#2c3e50"]
    /\ tooltip' = [opacity |-> "0.9",
                   html |-> <<surface[k].d.district, toFixed1(surface[k].d.average), " mm">>,
                   left |-> tooltipPosition(event).left,
                   top |-> tooltipPosition(event).top]
    /\ pointer' = [type |-> "mouseover", pageX |-> event.pageX, pageY |-> event.pageY]
    /\ UNCHANGED <<chartPresent, selectPresent, csv, selected, ready, requests,
                   pending, blobs, downloads, alerts, uncaught, nexp>>

\* .on("mousemove", function(event) {...})
mousemove(k, event) ==
    /\ IsBar(k)
    /\ tooltip' = [tooltip EXCEPT !.left = tooltipPosition(event).left,
                                  !.top = tooltipPosition(event).top]
    /\ pointer' = [type |-> "mousemove", pageX |-> event.pageX, pageY |-> event.pageY]
    /\ UNCHANGED <<chartPresent, selectPresent, csv, selected, ready, requests,
                   pending, surface, blobs, downloads, alerts, uncaught, nexp>>

\* .on("mouseout", function() {...})
mouseout(k, event) ==
    /\ IsBar(k)
    /\ surface' = [surface EXCEPT ![k].opacity = "0.9", ![k].stroke = "none"]
    /\ tooltip' = [tooltip EXCEPT !.opacity = "0"]
    /\ pointer' = [type |-> "mouseout", pageX |-> event.pageX, pageY |-> event.pageY]
    /\ UNCHANGED <<chartPresent, selectPresent, csv, selected, ready, requests,
                   pending, blobs, downloads, alerts, uncaught, nexp>>

\* ------------------------------------------------------------------ export
\* downloadSVG(): svg.cloneNode throws on a missing #chart, and
\* yearSelect.options throws on a missing #yearSelect, before any URL is made.
downloadSVG ==
    /\ ready
    /\ nexp < MaxExports
    /\ nexp' = nexp + 1
    /\ IF ~chartPresent \/ ~selectPresent
       THEN /\ uncaught' = Append(uncaught, IF ~chartPresent
                                            THEN "TypeError: svg is null"
                                            ELSE "TypeError: yearSelect is null")
            /\ UNCHANGED <<blobs, downloads>>
       ELSE /\ blobs' = Append(blobs, [kind |-> "svg", img |-> "none", revoked |-> 1])
            /\ downloads' = Append(downloads, [ext |-> "svg", label |-> selected])
            /\ UNCHANGED uncaught
    /\ UNCHANGED <<tooltip, pointer, chartPresent, selectPresent, csv, selected, ready, requests,
                   pending, surface, alerts>>

\* downloadJPG(): up to img.src = url
downloadJPG ==
    /\ ready
    /\ nexp < MaxExports
    /\ nexp' = nexp + 1
    /\ IF ~chartPresent
       THEN /\ alerts' = Append(alerts, "Chart element not found for JPG export.")
            /\ UNCHANGED blobs
       ELSE /\ blobs' = Append(blobs, [kind |-> "jpg", img |-> "loading", revoked |-> 0])
            /\ UNCHANGED alerts
    /\ UNCHANGED <<tooltip, pointer, chartPresent, selectPresent, csv, selected, ready, requests,
                   pending, surface, downloads, uncaught>>

\* URL.revokeObjectURL(url), once the image has settled
revokeObjectURL(u) == [blobs EXCEPT ![u].revoked = @ + 1, ![u].img = "settled"]
forgetObjectURL(u) == [blobs EXCEPT ![u].img = "settled"]

\* img.onload: try { draw, encode, download } catch { alert } finally { revoke }
imgOnload(u, throws) ==
    /\ u \in 1..Len(blobs)
    /\ blobs[u].img = "loading"
    /\ IF throws
       THEN /\ alerts' = Append(alerts,
                "Error generating JPG. Please try again or use the SVG download option.")
            /\ UNCHANGED downloads
       ELSE /\ downloads' = Append(downloads,
                [ext |-> "jpg", label |-> IF selectPresent THEN selected ELSE "chart"])
            /\ UNCHANGED alerts
    /\ blobs' = revokeObjectURL(u)
    /\ UNCHANGED <<tooltip, pointer, chartPresent, selectPresent, csv, selected, ready, requests,
                   pending, surface, uncaught, nexp>>

\* img.onerror: alert, then release the URL
onerrorRelease(u) == revokeObjectURL(u)
imgOnerror(u) ==
    /\ u \in 1..Len(blobs)
    /\ blobs[u].img = "loading"
    /\ alerts' = Append(alerts,
            "Error loading the chart for JPG conversion. Please try again.")
    /\ blobs' = onerrorRelease(u)
    /\ UNCHANGED <<tooltip, pointer, chartPresent, selectPresent, csv, selected, ready, requests,
                   pending, surface, downloads, uncaught, nexp>>

\* ---------------------------------------------------------- specifications
ZeroRow(district) == Row(district, "0", 1, "")
DataSets ==
    { << >>,
      << ZeroRow(Districts[1]), Row(Districts[2], "undefined", 3, "abc") >>,
      << ZeroRow(Districts[2]), Row(Districts[1], "12", 2, "24") >>,
      << Row(Districts[1], "12", 1, "12"), Row(Districts[2], "-12", 1, "-12") >> }

InitPage ==
    /\ ready = FALSE
    /\ requests = << >>
    /\ pending = {}
    /\ surface = << >>
    /\ blobs = << >>
    /\ downloads = << >>
    /\ alerts = << >>
    /\ uncaught = << >>
    /\ nexp = 0
    /\ tooltip = [opacity |-> "0", html |-> << >>, left |-> << >>, top |-> << >>]
    /\ pointer = [type |-> "", pageX |-> 0, pageY |-> 0]

Init ==
    /\ chartPresent \in BOOLEAN
    /\ selectPresent \in BOOLEAN
    /\ csv \in [Files -> DataSets]
    /\ selected \in IF selectPresent THEN Files ELSE {"none"}
    /\ InitPage

ImageSettles ==
    \E u \in 1..MaxExports : (\E throws \in BOOLEAN : imgOnload(u, throws)) \/ imgOnerror(u)

Next ==
    \/ DOMContentLoaded
    \/ \E f \in Files : yearSelectChange(f)
    \/ \E id \in 1..MaxRequests : thenHandler(id)
    \/ \E id \in 1..MaxRequests : catchHandler(id)
    \/ downloadSVG
    \/ downloadJPG
    \/ \E u \in 1..MaxExports, throws \in BOOLEAN : imgOnload(u, throws)
    \/ \E u \in 1..MaxExports : imgOnerror(u)

Spec == Init /\ [][Next]_vars

\* The page with its default file only: the year is never changed.
NextExport ==
    \/ DOMContentLoaded
    \/ \E id \in 1..MaxRequests : thenHandler(id)
    \/ \E id \in 1..MaxRequests : catchHandler(id)
    \/ downloadSVG
    \/ downloadJPG
    \/ \E u \in 1..MaxExports, throws \in BOOLEAN : imgOnload(u, throws)
    \/ \E u \in 1..MaxExports : imgOnerror(u)

\* The browser settles every image load: it fires load or error.
ExportSpec == Init /\ [][NextExport]_vars /\ WF_vars(ImageSettles)

\* The aggregation as a function of the file: data.csv holds any of AggInputs
\* and is loaded once.
AggKinds ==
    { <<"0", 1, "">>, <<"12", 1, "12">>, <<"12", 5, "abc">>, <<"-12", 3, "24">> }
AggInputs ==
    { <<Row(Districts[1], base, m, c)>> : base \in Cells, m \in months, c \in Cells }
    \cup UNION { { [i \in 1..n |-> Row(Districts[i], k[i][1], k[i][2], k[i][3])] :
                   k \in [1..n -> AggKinds] } : n \in 0..MaxRows }

InitAgg ==
    /\ chartPresent = TRUE
    /\ selectPresent = TRUE
    /\ selected = "data.csv"
    /\ \E input \in AggInputs :
          csv = [f \in Files |-> IF f = "data.csv" THEN input ELSE << >>]
    /\ InitPage

NextAgg ==
    \/ DOMContentLoaded
    \/ \E id \in 1..MaxRequests : thenHandler(id)

SpecAgg == InitAgg /\ [][NextAgg]_vars

\* The page with its default file and the pointer over its bars, in any
\* order of events.
NextHover ==
    \/ DOMContentLoaded
    \/ \E id \in 1..MaxRequests : thenHandler(id)
    \/ \E id \in 1..MaxRequests : catchHandler(id)
    \/ \E k \in 1..Len(surface), event \in Pointers : mouseover(k, event)
    \/ \E k \in 1..Len(surface), event \in Pointers : mousemove(k, event)
    \/ \E k \in 1..Len(surface), event \in Pointers : mouseout(k, event)

HoverSpec == Init /\ [][NextHover]_vars

\* ------------------------------------------------- reading the surface
Last(els) == els[Len(els)]
Shown == Last(surface).src
ShownFile == requests[Shown]
ShownOk == surface # << >> /\ Last(surface).cls # "error-msg"
ShownFailed == surface # << >> /\ Last(surface).cls = "error-msg"
OfClass(els, c) == SelectSeq(els, LAMBDA e : e.cls = c)
Bars == OfClass(surface, "bar")
Entries == [i \in 1..Len(Bars) |-> Bars[i].d]

RedrawnClasses == {"bar", "x axis", "y axis", "grid", "label", "error-msg"}
Geometry(els) == [i \in 1..Len(els) |-> [f \in DOMAIN els[i] \ {"src"} |-> els[i][f]]]

\* ------------------------------------------------------------------ claims

\* C1: once no fetch is pending, the visible chart is the one of the file
\* requested last.
CE_C1 ==
    (ready /\ chartPresent /\ pending = {}) =>
        (surface # << >> /\ ShownFile = requests[Len(requests)])

\* C2: after a response has been drawn, no bar, axis, gridline, value label or
\* error message of an earlier response is on the surface.
CE_C2 ==
    surface # << >> =>
        \A i \in 1..Len(surface) :
            surface[i].cls \in RedrawnClasses => surface[i].src = Shown

\* C3: after a failed load of S the surface has no bar and exactly one error
\* message, and that message names S.
CE_C3 ==
    ShownFailed =>
        /\ Bars = << >>
        /\ Len(OfClass(surface, "error-msg")) = 1
        /\ Last(surface).text[2] = ShownFile

\* C4: drawing the same file again, right after it was drawn, leaves the
\* surface as it was: same elements, same order, same geometry, none added.
CE_C4 ==
    [][(surface' # surface /\ ShownOk /\ ShownOk' /\ ShownFile = ShownFile')
          => Geometry(surface') = Geometry(surface)]_vars

\* C5: the drawn entries are the rows of the file, one each, in non-increasing
\* order of average, rows of equal average in file order.
RowOf(data, district) == CHOOSE k \in 1..Len(data) : data[k].District = district
Thm_C5 ==
    ShownOk =>
        LET data == csv[ShownFile] IN
        /\ Len(Entries) = Len(data)
        /\ \A k \in 1..Len(data) :
              Cardinality({i \in 1..Len(Entries) : Entries[i].district = data[k].District}) = 1
        /\ \A i \in 1..Len(Entries) - 1 : Entries[i].average >= Entries[i + 1].average
        /\ \A i, j \in 1..Len(Entries) :
              (i < j /\ Entries[i].average = Entries[j].average)
                  => RowOf(data, Entries[i].district) < RowOf(data, Entries[j].district)

\* three entries drawn, not in file order, two of them of equal average
Wit_C5 ==
    /\ ShownOk
    /\ Len(Entries) = 3
    /\ Entries[1].district # csv[ShownFile][1].District
    /\ \E i \in 1..2 : Entries[i].average = Entries[i + 1].average

\* C6: a cell that is missing or not a number counts 0, the average is the
\* sum of the twelve counted cells over 12, and a row without cells averages 0.
Counted(c) == IF c \in DOMAIN NumTable THEN NumTable[c] ELSE 0
RECURSIVE SumCounted(_, _)
SumCounted(cell, S) ==
    IF S = {} THEN 0
    ELSE LET m == CHOOSE x \in S : TRUE IN Counted(cell[m]) + SumCounted(cell, S \ {m})
Thm_C6 ==
    ShownOk =>
        LET data == csv[ShownFile] IN
        \A i \in 1..Len(Entries) :
            LET row == data[RowOf(data, Entries[i].district)] IN
            /\ 12 * Entries[i].average = SumCounted(row.cell, months)
            /\ (\A m \in months : row.cell[m] \in {"undefined", ""}) => Entries[i].average = 0

\* a drawn row with a cell that is not a number and an average that is not 0
Wit_C6 ==
    /\ ShownOk
    /\ \E i \in 1..Len(Entries) :
          LET row == csv[ShownFile][RowOf(csv[ShownFile], Entries[i].district)] IN
          /\ \E m \in months : row.cell[m] = "abc"
          /\ Entries[i].average # 0

\* C7: no bar starts below the pixel of value 0.
CE_C7 == \A i \in 1..Len(Bars) : Bars[i].y <= Bars[i].y0

\* C8: when the largest average is 0 or there is no entry, the value scale
\* has a positive upper bound, or else every bar has height 0.
MaxIsZero ==
    \/ Entries = << >>
    \/ /\ \A i \in 1..Len(Entries) : Entries[i].average <= 0
       /\ \E i \in 1..Len(Entries) : Entries[i].average = 0
CE_C8 ==
    (ShownOk /\ MaxIsZero) =>
        \/ \E i \in 1..Len(surface) :
              /\ surface[i].cls = "y axis"
              /\ ~surface[i].domain.nan
              /\ surface[i].domain.hi > 0
        \/ \A i \in 1..Len(Bars) : Bars[i].height = 0

\* C9: every blob URL made by an export is revoked, in the end, and never
\* more than once.
Thm_C9 ==
    /\ [](\A u \in 1..Len(blobs) : blobs[u].revoked <= 1)
    /\ \A u \in 1..MaxExports :
          (u <= Len(blobs)) ~> (u <= Len(blobs) /\ blobs[u].revoked = 1)

\* both exports ran; the image of the raster one is still being decoded
Wit_C9 ==
    /\ \E u \in 1..Len(blobs) : blobs[u].kind = "svg" /\ blobs[u].revoked = 1
    /\ \E u \in 1..Len(blobs) : blobs[u].kind = "jpg" /\ blobs[u].img = "loading"

\* C10: without a chart element every export click shows a notification and
\* nothing else: no download, no blob URL, no uncaught error.
CE_C10 ==
    ~chartPresent =>
        /\ Len(alerts) = nexp
        /\ downloads = << >>
        /\ blobs = << >>
        /\ uncaught = << >>

\* C11: a move event puts the floating label at the pointer position plus
\* the offset (10, -28), and no pointer event on a bar changes the entries
\* bound to the bars or the position and size of any bar.
Placement(els) ==
    [i \in 1..Len(els) |-> [x |-> els[i].x, y |-> els[i].y,
                            width |-> els[i].width, height |-> els[i].height]]
PointerStep == pointer' # pointer \/ (requests' = requests /\ pending' = pending)
Thm_C11 ==
    [][PointerStep =>
          /\ pointer'.type = "mousemove" =>
                /\ tooltip'.left = <<pointer'.pageX + 10, "px">>
                /\ tooltip'.top = <<pointer'.pageY - 28, "px">>
          /\ Entries' = Entries
          /\ Placement(Bars') = Placement(Bars)]_vars

\* the pointer entered a bar and then moved: the bar is emphasised, the label
\* is shown for it and stands at the new position
Wit_C11 ==
    /\ pointer.type = "mousemove"
    /\ \E i \in 1..Len(Bars) :
          /\ Bars[i].stroke = "#2c3e50"
          /\ tooltip.html = <<Bars[i].d.district, <<Bars[i].d.average, ".", 0>>, " mm">>
    /\ tooltip.opacity = "0.9"
    /\ tooltip.left = <<pointer.pageX + 10, "px">>
    /\ Len(Bars) = 2

====
